---- MODULE Spec2Model ----
(***************************************************************************)
(* A model of gnarl.py: the Schema validation engine, its combinators      *)
(* (And, Or, Use, Optional), the capability classes (Enum, UUID,           *)
(* Timestamp) and the schema-backed record type Schemed.                   *)
(*                                                                         *)
(* Python values are records tagged with their class (field cls).          *)
(* Objects with identity carry an id drawn from the allocation counter of  *)
(* the heap; Schemed instances keep their _data in the heap, so that "is"  *)
(* is equality of the reference.  Every validate operator returns an       *)
(* outcome record:                                                         *)
(*   ok    - TRUE for a return, FALSE for a raised exception               *)
(*   val   - the returned value                                            *)
(*   exc   - the class of the raised exception                             *)
(*   msg   - the exception's message, a sequence of parts                  *)
(*   h     - the heap after the call                                       *)
(*   trace - the Schema.validate calls made, in call order                 *)
(***************************************************************************)
EXTENDS Integers, Sequences, FiniteSets, TLC

VARIABLES heap, last

vars == <<heap, last>>

(***************************************************************************)
(* Bounds of the model.                                                    *)
(***************************************************************************)
MaxObjs == 1
MaxParse == 9
MaxKeys == 2
\* the number of calls of update in progress at a time
MaxCalls == 2

(***************************************************************************)
(* Python values.                                                          *)
(***************************************************************************)
PyNone == [cls |-> "NoneType"]
PyBool(b) == [cls |-> "bool", b |-> b]
PyInt(n) == [cls |-> "int", i |-> n]
\* a float, kept as its number of tenths
PyFloat(t) == [cls |-> "float", f10 |-> t]
PyStr(s) == [cls |-> "str", s |-> s]
PyDict(m) == [cls |-> "dict", d |-> m]
PyList(l) == [cls |-> "list", l |-> l]
PyTuple(l) == [cls |-> "tuple", l |-> l]
\* an OrderedDict, a dict subclass
OrderedDict(m) == [cls |-> "OrderedDict", d |-> m]
\* an instance of class Stack(list), a list subclass
Stack(l) == [cls |-> "Stack", l |-> l]
\* an instance And(*args) taken as a value: the namedtuple (args, error)
AndValue(args) == [cls |-> "And", l |-> <<PyTuple(args), PyNone>>]
\* a generator object that nothing has iterated
Generator == [cls |-> "generator"]
EmptyMap == [k \in {} |-> PyNone]

\* the proper base classes of each class of the model
Bases(c) ==
  CASE c = "bool" -> {"int", "object"}
    [] c \in {"Continent"} -> {"Enum", "JSONable", "object"}
    [] c = "UUID" -> {"uuid.UUID", "JSONable", "object"}
    [] c = "Timestamp" -> {"Delorean", "JSONable", "object"}
    [] c \in {"Point", "Item", "Parsed", "Stock"} -> {"Schemed", "JSONable", "object"}
    [] c = "OrderedDict" -> {"dict", "object"}
    [] c = "Stack" -> {"list", "object"}
    [] c \in {"And", "Or", "Use", "Optional", "StringMatch"} -> {"tuple", "object"}
    [] c = "object" -> {}
    [] OTHER -> {"object"}

IsInstance(v, c) == v.cls = c \/ c \in Bases(v.cls)

IsNumber(v) == v.cls \in {"int", "float", "bool"}

\* the numeric value of a number, in tenths
Tenths(v) ==
  CASE v.cls = "int" -> 10 * v.i
    [] v.cls = "float" -> v.f10
    [] v.cls = "bool" -> IF v.b THEN 10 ELSE 0

\* Python's ==
PyEq(a, b) == IF IsNumber(a) /\ IsNumber(b) THEN Tenths(a) = Tenths(b) ELSE a = b

\* Python's truth value
Truthy(v) ==
  CASE v.cls = "NoneType" -> FALSE
    [] IsNumber(v) -> Tenths(v) # 0
    [] v.cls = "str" -> v.s # ""
    [] IsInstance(v, "dict") -> DOMAIN v.d # {}
    [] IsInstance(v, "list") \/ IsInstance(v, "tuple") -> Len(v.l) > 0
    [] OTHER -> TRUE

(***************************************************************************)
(* Outcomes and messages.                                                  *)
(***************************************************************************)
Lit(t) == [lit |-> t]
Repr(v) == [repr |-> v]
ExcRepr(exc, msg) == [exc |-> exc, args |-> msg]

Return(v, h, tr) ==
  [ok |-> TRUE, val |-> v, exc |-> "", msg |-> <<>>, h |-> h, trace |-> tr]

Raise(exc, msg, h, tr) ==
  [ok |-> FALSE, val |-> PyNone, exc |-> exc, msg |-> msg, h |-> h, trace |-> tr]

\* raise SchemaError(error if error is not None else generated);
\* error is <<>> for None and <<text>> for a configured message
SchemaError(error, generated, h, tr) ==
  Raise("SchemaError", IF error # <<>> THEN <<Lit(error[1])>> ELSE generated, h, tr)

\* an outcome with the trace tr put before its own
Pre(tr, r) == [r EXCEPT !.trace = tr \o @]

\* objects allocated by a call that raises are unreachable afterwards:
\* the heap of a raising outcome is the heap h the call started from
Unwind(h, r) == IF r.ok THEN r ELSE [r EXCEPT !.h = h]

(***************************************************************************)
(* Shapes (schema nodes).                                                  *)
(***************************************************************************)
\* a class used as a schema: int, dict, Continent, Point, ...
TypeS(name) == [kind |-> "type", name |-> name]
\* a function or lambda used as a schema
FuncS(name) == [kind |-> "func", name |-> name]
\* a plain value used as a schema
LitS(v) == [kind |-> "lit", value |-> v]
ListS(items) == [kind |-> "list", items |-> items]
TupleS(items) == [kind |-> "tuple", items |-> items]
\* a dict schema: its items, in the dict's order, as records [k, v]
DictS(entries) == [kind |-> "dict", entries |-> entries]
OPTIONAL_NO_DEFAULT_MARK == [cls |-> "object", mark |-> "_OPTIONAL_NO_DEFAULT_MARK"]
Optional(schema, default) == [kind |-> "Optional", schema |-> schema, default |-> default]
And(args, error) == [kind |-> "And", args |-> args, error |-> error]
Or(args, error) == [kind |-> "Or", args |-> args, error |-> error]
Use(func, error) == [kind |-> "Use", func |-> func, error |-> error]
Schema(schema, error) == [kind |-> "Schema", schema |-> schema, error |-> error]

\* the characters of the class [a-z]
Lower ==
  {"a", "b", "c", "d", "e", "f", "g", "h", "i", "j", "k", "l", "m",
   "n", "o", "p", "q", "r", "s", "t", "u", "v", "w", "x", "y", "z"}

\* re.compile(pattern): the items of the pattern, each a character class
\* with its quantifier ("1" for exactly one, "+" for one or more)
re_compile(pattern) ==
  [pattern |-> pattern,
   items |-> CASE pattern = "[a-z][a-z_]+" ->
                    <<[chars |-> Lower, q |-> "1"], [chars |-> Lower \cup {"_"}, q |-> "+"]>>
               [] pattern = "[a-z]" -> <<[chars |-> Lower, q |-> "1"]>>]

\* a variant of regex.match that wants the whole text matched
RECURSIVE regex_fullmatch(_, _, _, _)
regex_fullmatch(items, i, text, pos) ==
  IF i > Len(items) THEN pos = Len(text) + 1
  ELSE IF pos > Len(text) THEN FALSE
  ELSE IF SubSeq(text, pos, pos) \notin items[i].chars THEN FALSE
  ELSE \/ regex_fullmatch(items, i + 1, text, pos + 1)
       \/ items[i].q = "+" /\ regex_fullmatch(items, i, text, pos + 1)

\* regex.match(text): the items from the i-th on match at position pos;
\* what follows the match is not looked at
RECURSIVE regex_match(_, _, _, _)
regex_match(items, i, text, pos) ==
  IF i > Len(items) THEN TRUE
  ELSE IF pos > Len(text) THEN FALSE
  ELSE IF SubSeq(text, pos, pos) \notin items[i].chars THEN FALSE
  ELSE \/ regex_match(items, i + 1, text, pos + 1)
       \/ items[i].q = "+" /\ regex_match(items, i, text, pos + 1)

StringMatch(pattern, error) ==
  [kind |-> "StringMatch", regex |-> re_compile(pattern), error |-> error]
SRepr(s) == [srepr |-> s]
StrOf(s) == [str |-> s]

EnumClasses == {"Continent"}
SchemedClasses == {"Point", "Item", "Parsed", "Stock"}

\* a variant that finds no validate method on a class
HasValidate_Instances(s) == s.kind \in {"And", "Or", "Use", "Schema", "StringMatch"}

\* callable(getattr(s, "validate", None))
HasValidate(s) ==
  \/ s.kind \in {"And", "Or", "Use", "Schema", "StringMatch"}
  \/ s.kind = "type" /\ s.name \in EnumClasses \cup SchemedClasses \cup {"UUID", "Timestamp"}

\* isinstance(s, (list, tuple, set, frozenset)); the namedtuples are tuples
IsSequenceLiteral(s) ==
  s.kind \in {"list", "tuple", "And", "Or", "Use", "Optional", "StringMatch"}

\* the members of a sequence literal
Members(s) ==
  CASE s.kind \in {"list", "tuple"} -> s.items
    [] s.kind \in {"And", "Or"} -> <<TupleS(s.args), LitS(PyNone)>>
    [] s.kind = "Optional" -> <<s.schema, LitS(s.default)>>
    [] OTHER -> <<>>

\* c.__name__ if hasattr(c, "__name__") else repr(c)
get_callable_repr(f) == IF f = "in0to5" THEN "<lambda>" ELSE f

(***************************************************************************)
(* The callables of the model: the class int (called as a conversion) and  *)
(* the predicate lambda x: 0 < x < 5.                                      *)
(***************************************************************************)
\* int(v)
int_call(v, h) ==
  CASE v.cls = "int" -> Return(v, h, <<>>)
    [] v.cls = "bool" -> Return(PyInt(IF v.b THEN 1 ELSE 0), h, <<>>)
    [] v.cls = "float" -> Return(PyInt(v.f10 \div 10), h, <<>>)
    [] v.cls = "str" ->
         IF \E n \in 0..MaxParse : ToString(n) = v.s
           THEN Return(PyInt(CHOOSE n \in 0..MaxParse : ToString(n) = v.s), h, <<>>)
           ELSE Raise("ValueError", <<Lit("invalid literal for int() with base 10: "), Repr(v)>>, h, <<>>)
    [] OTHER -> Raise("TypeError", <<Lit("int() argument must be a string or a number")>>, h, <<>>)

\* lambda x: 0 < x < 5
in0to5(v, h) ==
  IF IsNumber(v)
    THEN Return(PyBool(0 < Tenths(v) /\ Tenths(v) < 50), h, <<>>)
    ELSE Raise("TypeError", <<Lit("'<' not supported")>>, h, <<>>)

\* str(v), for the numbers and strings of the model
str_call(v, h) ==
  CASE v.cls = "str" -> Return(v, h, <<>>)
    [] v.cls = "int" /\ v.i >= 0 -> Return(PyStr(ToString(v.i)), h, <<>>)
    [] v.cls = "int" /\ v.i < 0 -> Return(PyStr("-" \o ToString(-v.i)), h, <<>>)
    [] v.cls = "bool" -> Return(PyStr(IF v.b THEN "True" ELSE "False"), h, <<>>)
    [] v.cls = "float" /\ v.f10 >= 0 ->
         Return(PyStr(ToString(v.f10 \div 10) \o "." \o ToString(v.f10 % 10)), h, <<>>)
    [] OTHER -> Return(PyStr("<object>"), h, <<>>)

CallFunc(f, v, h) ==
  CASE f = "int" -> int_call(v, h)
    [] f = "in0to5" -> in0to5(v, h)
    [] f = "str" -> str_call(v, h)

(***************************************************************************)
(* Record types: the __schema__ each Schemed subclass declares.  The       *)
(* metaclass wraps a __schema__ that is not a Schema into Schema(...).     *)
(***************************************************************************)
DeclaredSchema(c) ==
  CASE c = "Point" ->
         DictS(<<[k |-> "x", v |-> TypeS("float")],
                 [k |-> "y", v |-> TypeS("float")]>>)
    [] c = "Item" ->
         Schema(DictS(<<[k |-> "c", v |-> TypeS("Continent")],
                        [k |-> "v", v |-> Optional(TypeS("int"), PyInt(42))],
                        [k |-> "o", v |-> Optional(TypeS("int"), OPTIONAL_NO_DEFAULT_MARK)]>>),
                <<>>)
    [] c = "Parsed" ->
         DictS(<<[k |-> "n", v |-> And(<<TypeS("str"), Use("int", <<>>)>>, <<>>)]>>)
    [] c = "Stock" ->
         DictS(<<[k |-> "n", v |-> Or(<<And(<<TypeS("str"), Use("int", <<>>)>>, <<>>),
                                         And(<<TypeS("int"), Use("str", <<>>)>>, <<>>)>>, <<>>)],
                 [k |-> "keys", v |-> TypeS("int")]>>)

SchemedMeta(c) ==
  IF DeclaredSchema(c).kind = "Schema" THEN DeclaredSchema(c) ELSE Schema(DeclaredSchema(c), <<>>)

\* the keys of the universe in the order of Python's < on str
KeyOrder == <<"a", "b", "c", "keys", "n", "o", "q", "self", "v", "x", "y", "z">>

\* sorted(S) for a set S of str keys
Sorted(S) == SelectSeq(KeyOrder, LAMBDA k : k \in S)

\* a variant that joins str(k), not repr(k)
RECURSIVE JoinStrs(_)
JoinStrs(ks) ==
  IF Len(ks) = 0 THEN ""
  ELSE IF Len(ks) = 1 THEN ks[1]
  ELSE ks[1] \o ", " \o JoinStrs(Tail(ks))

\* ", ".join(repr(k) for k in ks)
RECURSIVE JoinReprs(_)
JoinReprs(ks) ==
  IF Len(ks) = 0 THEN ""
  ELSE IF Len(ks) = 1 THEN "'" \o ks[1] \o "'"
  ELSE "'" \o ks[1] \o "', " \o JoinReprs(Tail(ks))

\* the keys of a dict schema, and its entry for a key
SchemaKeys(s) == {s.entries[i].k : i \in 1..Len(s.entries)}
SchemaItem(s, k) == s.entries[CHOOSE i \in 1..Len(s.entries) : s.entries[i].k = k].v

\* a mapping updated with another (dict.update)
Merge(a, b) == [k \in DOMAIN a \cup DOMAIN b |-> IF k \in DOMAIN b THEN b[k] ELSE a[k]]

Ref(c, id) == [cls |-> c, id |-> id]

\* the heap with a new object in it
Alloc(h, obj) ==
  [next |-> h.next + 1, recs |-> Merge(h.recs, [i \in {h.next} |-> obj])]

\* a variant that lets every exception but SchemaError through
Pcall_Reraise(r, e, fmt) ==
  IF r.ok \/ r.exc # "SchemaError" \/ e = <<>> THEN r
  ELSE Raise("SchemaError", <<Lit(e[1])>>, r.h, r.trace)

\* the except clause of Schema.__pcall and its message
Pcall(r, e, fmt) ==
  IF r.ok THEN r
  ELSE IF r.exc = "SchemaError"
    THEN IF e = <<>> THEN r ELSE Raise("SchemaError", <<Lit(e[1])>>, r.h, r.trace)
    ELSE Raise("SchemaError",
               IF e # <<>> THEN <<Lit(e[1])>>
               ELSE fmt \o <<Lit(" raised "), ExcRepr(r.exc, r.msg)>>,
               r.h, r.trace)

(***************************************************************************)
(* The engine.                                                             *)
(***************************************************************************)
RECURSIVE Schema_validate(_, _, _, _)
RECURSIVE AndLoop(_, _, _, _, _)
RECURSIVE OrLoop(_, _, _, _, _)
RECURSIVE OrLoop_Last(_, _, _, _, _)
RECURSIVE SeqLoop(_, _, _, _, _, _)
RECURSIVE DictLoop(_, _, _, _, _, _, _, _)
RECURSIVE CallValidate(_, _, _)

\* And.validate: the loop from its i-th argument on, data being the value
\* the step before returned
AndLoop(s, i, data, h, tr) ==
  IF i > Len(s.args) THEN Return(data, h, tr)
  ELSE LET r == Schema_validate(s.args[i], s.error, data, h) IN
       IF r.ok THEN AndLoop(s, i + 1, r.val, r.h, tr \o r.trace)
       ELSE Pre(tr, r)

And_validate(s, data, h) == AndLoop(s, 1, data, h, <<>>)

\* a variant that goes on after a success and returns the last one
OrLoop_Last(s, i, data, h, tr) ==
  IF i > Len(s.args)
    THEN SchemaError(s.error, <<Repr(data), Lit(" did not validate "), SRepr(s)>>, h, tr)
  ELSE LET r == Schema_validate(s.args[i], s.error, data, h)
           rest == OrLoop_Last(s, i + 1, data, r.h, tr \o r.trace)
       IN IF r.ok /\ ~rest.ok THEN Pre(tr, r) ELSE rest

\* Or.validate: the loop from its i-th argument on
OrLoop(s, i, data, h, tr) ==
  IF i > Len(s.args)
    THEN SchemaError(s.error, <<Repr(data), Lit(" did not validate "), SRepr(s)>>, h, tr)
  ELSE LET r == Schema_validate(s.args[i], s.error, data, h) IN
       IF r.ok THEN Pre(tr, r)
       ELSE IF r.exc = "SchemaError" THEN OrLoop(s, i + 1, data, r.h, tr \o r.trace)
       ELSE Pre(tr, r)

Or_validate(s, data, h) == OrLoop(s, 1, data, h, <<>>)

Use_validate(s, data, h) ==
  LET r == CallFunc(s.func, data, h) IN
  IF r.ok THEN r
  ELSE IF r.exc = "SchemaError"
    THEN IF s.error = <<>> THEN r ELSE Raise("SchemaError", <<Lit(s.error[1])>>, r.h, r.trace)
    ELSE SchemaError(s.error,
                     <<Lit(get_callable_repr(s.func)), Lit("("), Repr(data), Lit(")"),
                       Lit(" raised "), ExcRepr(r.exc, r.msg)>>,
                     r.h, r.trace)

\* StringMatch.validate
StringMatch_validate(s, data, h) ==
  IF IsInstance(data, "str")
    THEN IF regex_match(s.regex.items, 1, data.s, 1)
           THEN Return(data, h, <<>>)
           ELSE SchemaError(s.error, <<Repr(data), Lit(" does not match regex "),
                                       Repr(PyStr(s.regex.pattern))>>, h, <<>>)
    ELSE SchemaError(s.error, <<Repr(data), Lit(" is not a string")>>, h, <<>>)

\* the classes whose constructor takes the fields of a namedtuple, not an
\* iterable of elements
NamedTuples == {"And", "Or", "Use", "Optional", "StringMatch"}

\* a variant that collects the outputs in a plain list
Rebuilt_Plain(o, data, h, tr) ==
  SeqLoop(o, [cls |-> "list", l |-> data.l], 1, <<>>, h, tr)

\* type(data)(o.validate(d) for d in data): list, tuple and their plain
\* subclasses iterate the generator, which validates the elements in order;
\* And(generator) stores the generator as its one argument and iterates
\* nothing
Rebuilt(o, data, h, tr) ==
  IF data.cls \in NamedTuples
    THEN Return([cls |-> data.cls, l |-> <<PyTuple(<<Generator>>), PyNone>>], h, tr)
    ELSE SeqLoop(o, data, 1, <<>>, h, tr)

\* the generator o.validate(d) for d in data, iterated from the i-th
\* element of data on
SeqLoop(o, data, i, out, h, tr) ==
  IF i > Len(data.l) THEN Return([cls |-> data.cls, l |-> out], h, tr)
  ELSE LET r == Or_validate(o, data.l[i], h) IN
       IF r.ok THEN SeqLoop(o, data, i + 1, Append(out, r.val), r.h, tr \o r.trace)
       ELSE Pre(tr, r)

\* the loop over s.items() of a dict schema, from its i-th item on
DictLoop(s, e, data, i, new, seen, h, tr) ==
  IF i > Len(s.entries) THEN [new |-> new, seen |-> seen, res |-> Return(PyNone, h, tr)]
  ELSE LET k == s.entries[i].k
           v == s.entries[i].v
       IN IF k \in DOMAIN data.d
            THEN LET r == Schema_validate(IF v.kind = "Optional" THEN v.schema ELSE v,
                                          e, data.d[k], h)
                 IN IF r.ok
                      THEN DictLoop(s, e, data, i + 1, Merge(new, [j \in {k} |-> r.val]),
                                    seen \cup {k}, r.h, tr \o r.trace)
                      ELSE [new |-> new, seen |-> seen, res |-> Pre(tr, r)]
            ELSE DictLoop(s, e, data, i + 1, new, seen, h, tr)

\* set(k for k, v in s.items() if type(v) is not Optional)
RequiredKeys(s) == {k \in SchemaKeys(s) : SchemaItem(s, k).kind # "Optional"}

\* a variant that names the first missing key only
MissingKeysMessage_First(required, seen) ==
  <<Lit("Missing keys: " \o JoinReprs(<<Sorted(required \ seen)[1]>>))>>

\* "Missing keys: " + ", ".join(repr(k) for k in sorted(required - seen))
MissingKeysMessage(required, seen) ==
  <<Lit("Missing keys: " \o JoinReprs(Sorted(required \ seen)))>>

\* a variant that takes no key for an extra one
ExtraKeys_None(s, data) == {}

\* data.keys() - s.keys()
ExtraKeys(s, data) == DOMAIN data.d \ SchemaKeys(s)

\* "Wrong keys in {!r}: {!s}".format(data, ", ".join(repr(k) for k in sorted(extra)))
WrongKeysMessage(data, extra) ==
  <<Lit("Wrong keys in "), Repr(data), Lit(": " \o JoinReprs(Sorted(extra)))>>

\* a variant that applies no default
DefaultKeys_None(s, seen) == {}

\* a variant that applies the default to the keys seen as well
DefaultKeys_All(s, seen) ==
  {k \in SchemaKeys(s) : /\ SchemaItem(s, k).kind = "Optional"
                         /\ SchemaItem(s, k).default # OPTIONAL_NO_DEFAULT_MARK}

\* the Optional keys with a default, less the keys seen
DefaultKeys(s, seen) ==
  {k \in SchemaKeys(s) : /\ SchemaItem(s, k).kind = "Optional"
                         /\ SchemaItem(s, k).default # OPTIONAL_NO_DEFAULT_MARK} \ seen

\* a variant that looks for the missing keys before it validates a value
Dict_validate_KeysFirst(s, e, data0, h) ==
  LET t == Schema_validate(TypeS("dict"), e, data0, h) IN
  IF ~t.ok THEN t
  ELSE
    LET data == t.val
        loop == DictLoop(s, e, data, 1, EmptyMap, {}, t.h, t.trace)
        seen == loop.seen
        required == RequiredKeys(s)
        extra == ExtraKeys(s, data)
        defaults == DefaultKeys(s, seen)
    IN IF ~(required \subseteq DOMAIN data.d)
         THEN Raise("SchemaError", MissingKeysMessage(required, DOMAIN data.d),
                    loop.res.h, loop.res.trace)
       ELSE IF ~loop.res.ok THEN loop.res
       ELSE IF Cardinality(extra) # 0
         THEN Raise("SchemaError", WrongKeysMessage(data, extra),
                    loop.res.h, loop.res.trace)
       ELSE Return([cls |-> data.cls,
                    d |-> Merge(loop.new, [k \in defaults |-> SchemaItem(s, k).default])],
                   loop.res.h, loop.res.trace)

\* the dict branch of Schema.validate
Dict_validate(s, e, data0, h) ==
  LET t == Schema_validate(TypeS("dict"), e, data0, h) IN
  IF ~t.ok THEN t
  ELSE
    LET data == t.val
        loop == DictLoop(s, e, data, 1, EmptyMap, {}, t.h, t.trace)
        seen == loop.seen
        required == RequiredKeys(s)
        extra == ExtraKeys(s, data)
        defaults == DefaultKeys(s, seen)
    IN IF ~loop.res.ok THEN loop.res
       ELSE IF ~(required \subseteq seen)
         THEN Raise("SchemaError", MissingKeysMessage(required, seen),
                    loop.res.h, loop.res.trace)
       ELSE IF Cardinality(extra) # 0
         THEN Raise("SchemaError", WrongKeysMessage(data, extra),
                    loop.res.h, loop.res.trace)
       ELSE Return([cls |-> data.cls,
                    d |-> Merge(loop.new, [k \in defaults |-> SchemaItem(s, k).default])],
                   loop.res.h, loop.res.trace)

\* Schema(s, e).validate(data)
Schema_validate(s, e, data, h) ==
  LET call == <<[s |-> s, e |-> e, d |-> data]>> IN
  Unwind(h, Pre(call,
    IF HasValidate(s)
      THEN Pcall(CallValidate(s, data, h), e,
                 <<SRepr(s), Lit(".validate("), Repr(data), Lit(")")>>)
    ELSE IF IsSequenceLiteral(s)
      THEN LET t == Schema_validate(TypeS(s.kind), e, data, h) IN
           IF ~t.ok THEN t
           ELSE Rebuilt(Or(Members(s), e), t.val, t.h, t.trace)
    ELSE IF s.kind = "dict"
      THEN Dict_validate(s, e, data, h)
    ELSE IF s.kind = "type"
      THEN IF IsInstance(data, s.name)
             THEN Return(data, h, <<>>)
             ELSE SchemaError(e, <<Repr(data), Lit(" should be instance of "), SRepr(s)>>, h, <<>>)
    ELSE IF s.kind = "func"
      THEN LET r == Pcall(CallFunc(s.name, data, h), e, <<StrOf(s), Lit("("), Repr(data), Lit(")")>>) IN
           IF ~r.ok THEN r
           ELSE IF Truthy(r.val) THEN Return(data, r.h, r.trace)
           ELSE SchemaError(e, <<Lit(get_callable_repr(s.name)), Lit("("), Repr(data),
                                 Lit(") should evaluate to True")>>, r.h, r.trace)
    ELSE IF PyEq(s.value, data)
      THEN Return(data, h, <<>>)
      ELSE SchemaError(e, <<Repr(data), Lit(" should be "), SRepr(s)>>, h, <<>>)))

(***************************************************************************)
(* Capability classes.                                                     *)
(***************************************************************************)
\* the members of an Enum class, by value
EnumValues(c) == {"EUROPE", "ASIA", "AMERICA", "OCEANIA", "ANTARCTICA"}
Member(c, name) == [cls |-> c, member |-> name]

\* Enum.validate
Enum_validate(c, data, h) ==
  IF IsInstance(data, c) THEN Return(data, h, <<>>)
  ELSE IF data.cls = "str" /\ data.s \in EnumValues(c)
    THEN Return(Member(c, data.s), h, <<>>)
    ELSE Raise("ValueError", <<Repr(data), Lit(" is not a valid "), Lit(c)>>, h, <<>>)

\* the texts uuid.UUID() accepts, and the texts delorean's parse() accepts
UUIDTexts == {"00000000-0000-0000-0000-000000000001"}
DateTexts == {"2015-01-01T00:00:00+00:00"}

\* cls(text) for the UUID class: a new object
NewUUID(text, h) ==
  Return([cls |-> "UUID", id |-> h.next, text |-> text], [h EXCEPT !.next = @ + 1], <<>>)

\* UUID.validate
UUID_validate(data, h) ==
  IF IsInstance(data, "UUID") THEN Return(data, h, <<>>)
  ELSE IF IsInstance(data, "uuid.UUID") THEN NewUUID(data.text, h)
  ELSE IF data.cls # "str"
    THEN Raise("AttributeError", <<Lit("object has no attribute 'replace'")>>, h, <<>>)
  ELSE IF data.s \in UUIDTexts THEN NewUUID(data.s, h)
  ELSE Raise("ValueError", <<Lit("badly formed hexadecimal UUID string")>>, h, <<>>)

\* cls(datetime, timezone) for the Timestamp class: a new object
NewTimestamp(text, h) ==
  Return([cls |-> "Timestamp", id |-> h.next, text |-> text], [h EXCEPT !.next = @ + 1], <<>>)

\* Timestamp.validate
Timestamp_validate(data, h) ==
  IF IsInstance(data, "Timestamp") THEN Return(data, h, <<>>)
  ELSE IF IsInstance(data, "datetime") THEN NewTimestamp(data.text, h)
  ELSE IF IsInstance(data, "Delorean") THEN NewTimestamp(data.text, h)
  ELSE IF data.cls = "str" /\ data.s \in DateTexts THEN NewTimestamp(data.s, h)
  ELSE Raise("ValueError", <<Lit("Unknown string format")>>, h, <<>>)

(***************************************************************************)
(* Schemed.  The heap maps the id of each instance to its class, its _data *)
(* slot and its other (private) attributes.                                *)
(***************************************************************************)
\* def f(self, *arg, **kw) called with a keyword named self: the call
\* itself raises, before the body runs
MultipleValues(f) ==
  <<Lit("Schemed." \o f \o "() got multiple values for argument 'self'")>>

\* a variant that merges the keywords before the positional mapping
updated_KwFirst(data, arg, kw) ==
  PyDict(Merge(Merge(IF data.cls = "dict" THEN data.d ELSE EmptyMap, kw), arg))

\* d = dict(_data); d.update(*arg, **kw)
updated(data, arg, kw) ==
  PyDict(Merge(Merge(IF data.cls = "dict" THEN data.d ELSE EmptyMap, arg), kw))

\* self.__schema__.validate(d)
Validated(c, d, h) == Schema_validate(SchemedMeta(c).schema, SchemedMeta(c).error, d, h)

\* object.__setattr__(self, "_data", r); return self, where r is the outcome
\* of the validation: the assignment is not reached when it raised
assigned_data(ref, r) ==
  IF r.ok THEN Return(ref, [r.h EXCEPT !.recs[ref.id].data = r.val], r.trace) ELSE r

\* a variant that stores the merged mapping before it validates it
Schemed_update_Early(ref, arg, kw, h) ==
  LET d == updated(h.recs[ref.id].data, arg, kw) IN
  assigned_data(ref, Validated(ref.cls, d, [h EXCEPT !.recs[ref.id].data = d]))

\* Schemed.update(*arg, **kw) on the instance ref; arg and kw are mappings.
\* dict(_data) copies a dict and is {} for the () of __init__
Schemed_update(ref, arg, kw, h) ==
  IF "self" \in DOMAIN kw
    THEN Raise("TypeError", MultipleValues("update"), h, <<>>)
    ELSE assigned_data(ref, Validated(ref.cls, updated(h.recs[ref.id].data, arg, kw), h))

\* Schemed.__init__(*arg, **kw), called on a new instance
Schemed_init(c, arg, kw, h) ==
  IF "self" \in DOMAIN kw
    THEN Raise("TypeError", MultipleValues("__init__"), h, <<>>)
    ELSE Unwind(h, Schemed_update(Ref(c, h.next), arg, kw,
                   Alloc(h, [cls |-> c, data |-> PyTuple(<<>>), attrs |-> EmptyMap])))

\* a variant that builds a new instance from an instance too
Schemed_validate_Copy(c, data, h) ==
  IF IsInstance(data, c) THEN Schemed_init(c, EmptyMap, h.recs[data.id].data.d, h)
  ELSE IF IsInstance(data, "dict") THEN Schemed_init(c, EmptyMap, data.d, h)
  ELSE Raise("ValueError", <<Repr(data)>>, h, <<>>)

\* Schemed.validate
Schemed_validate(c, data, h) ==
  IF IsInstance(data, c) THEN Return(data, h, <<>>)
  ELSE IF IsInstance(data, "dict") THEN Schemed_init(c, EmptyMap, data.d, h)
  ELSE Raise("ValueError", <<Repr(data)>>, h, <<>>)

\* a statement made of a call: the value returned is dropped
Discard(r) == IF r.ok THEN Return(PyNone, r.h, r.trace) ELSE r

\* key.startswith("_")
IsPrivate(key) == Len(key) > 0 /\ SubSeq(key, 1, 1) = "_"

\* a variant that sends every name through update
Schemed_setattr_Validating(ref, key, value, h) ==
  Discard(Schemed_update(ref, [k \in {key} |-> value], EmptyMap, h))

\* Schemed.__setattr__
Schemed_setattr(ref, key, value, h) ==
  IF IsPrivate(key)
    THEN Return(PyNone,
                IF key = "_data" THEN [h EXCEPT !.recs[ref.id].data = value]
                ELSE [h EXCEPT !.recs[ref.id].attrs = Merge(@, [k \in {key} |-> value])],
                <<>>)
    ELSE Discard(Schemed_update(ref, [k \in {key} |-> value], EmptyMap, h))

\* Schemed.jsonable
Schemed_jsonable(ref, h) == h.recs[ref.id].data

\* the attributes ordinary lookup finds on the class: methods and properties
ClassAttributes ==
  {"update", "keys", "validate", "jsonable", "to_json", "from_json", "to_hipack",
   "from_hipack"}

\* a bound method of the instance ref
BoundMethod(ref, name) == [cls |-> "method", self |-> ref, name |-> name]

\* Schemed.__getattr__, which Python calls only when ordinary lookup fails
Schemed_getattr_hook(ref, key, h) ==
  IF h.recs[ref.id].data.cls = "dict" /\ key \in DOMAIN h.recs[ref.id].data.d
    THEN Return(h.recs[ref.id].data.d[key], h, <<>>)
    ELSE Raise("AttributeError", <<Lit("object has no attribute "), Repr(PyStr(key))>>, h, <<>>)

\* self.key: ordinary lookup (the _data slot, the jsonable property, the
\* instance's own attributes, the methods of the class), then __getattr__
getattr(ref, key, h) ==
  IF key = "_data" \/ key = "jsonable" THEN Return(Schemed_jsonable(ref, h), h, <<>>)
  ELSE IF key \in DOMAIN h.recs[ref.id].attrs THEN Return(h.recs[ref.id].attrs[key], h, <<>>)
  ELSE IF key \in ClassAttributes THEN Return(BoundMethod(ref, key), h, <<>>)
  ELSE Schemed_getattr_hook(ref, key, h)

\* Schemed.keys
Schemed_keys(ref, h) ==
  IF h.recs[ref.id].data.cls = "dict" THEN DOMAIN h.recs[ref.id].data.d ELSE {}

\* Schemed.__iter__
Schemed_iter(ref, h) ==
  {<<k, h.recs[ref.id].data.d[k]>> : k \in Schemed_keys(ref, h)}

\* s.validate(data) for a schema s that has a validate method
CallValidate(s, data, h) ==
  CASE s.kind = "And" -> And_validate(s, data, h)
    [] s.kind = "Or" -> Or_validate(s, data, h)
    [] s.kind = "Use" -> Use_validate(s, data, h)
    [] s.kind = "Schema" -> Schema_validate(s.schema, s.error, data, h)
    [] s.kind = "StringMatch" -> StringMatch_validate(s, data, h)
    [] s.kind = "type" /\ s.name \in EnumClasses -> Enum_validate(s.name, data, h)
    [] s.kind = "type" /\ s.name = "UUID" -> UUID_validate(data, h)
    [] s.kind = "type" /\ s.name = "Timestamp" -> Timestamp_validate(data, h)
    [] s.kind = "type" /\ s.name \in SchemedClasses -> Schemed_validate(s.name, data, h)

(***************************************************************************)
(* The engine on its own: Schema(s, e).validate(d) and s.validate(d) for   *)
(* schemas and data drawn from bounded sets.                               *)
(***************************************************************************)
IntS == TypeS("int")
Custom == <<"custom">>
Errors == {<<>>, Custom}

DictShapes ==
  { DictS(<<[k |-> "a", v |-> IntS]>>),
    DictS(<<[k |-> "a", v |-> IntS], [k |-> "b", v |-> IntS]>>),
    DictS(<<[k |-> "b", v |-> IntS], [k |-> "a", v |-> IntS]>>),
    DictS(<<[k |-> "v", v |-> Optional(IntS, PyInt(42))]>>),
    DictS(<<[k |-> "b", v |-> Optional(Use("int", <<>>), PyInt(42))],
            [k |-> "a", v |-> Use("int", <<>>)]>>),
    DictS(<<[k |-> "b", v |-> IntS],
            [k |-> "v", v |-> Optional(IntS, PyInt(42))],
            [k |-> "a", v |-> Optional(IntS, OPTIONAL_NO_DEFAULT_MARK)]>>) }

AndShapes ==
  { And(<<Use("int", <<>>), FuncS("in0to5")>>, e) : e \in Errors }
  \cup { And(<<IntS, FuncS("in0to5")>>, <<>>),
         And(<<>>, <<>>),
         And(<<Use("int", <<>>), FuncS("in0to5"), IntS>>, <<>>),
         And(<<FuncS("in0to5"), Use("int", <<>>)>>, <<>>),
         And(<<DictS(<<[k |-> "a", v |-> IntS]>>), FuncS("in0to5")>>, Custom) }

OrShapes ==
  { Or(<<IntS, TypeS("dict")>>, e) : e \in Errors }
  \cup { Or(<<>>, <<>>),
         Or(<<IntS>>, <<>>),
         Or(<<Use("int", <<>>), TypeS("str")>>, <<>>),
         Or(<<TypeS("str"), Use("int", <<>>)>>, <<>>),
         Or(<<FuncS("in0to5"), Use("int", <<>>), TypeS("str")>>, <<>>) }

Pattern == "[a-z][a-z_]+"

SequenceShapes ==
  { ListS(<<LitS(PyInt(0)), LitS(PyInt(1))>>),
    ListS(<<>>),
    ListS(<<Use("int", <<>>), TypeS("str")>>),
    TupleS(<<IntS>>) }

MatchShapes ==
  { StringMatch(Pattern, e) : e \in Errors }
  \cup { DictS(<<[k |-> "a", v |-> StringMatch(Pattern, <<>>)]>>) }

CapabilityShapes == { TypeS(c) : c \in {"Continent", "UUID", "Timestamp", "Point", "Item"} }

Shapes ==
  DictShapes \cup AndShapes \cup OrShapes \cup CapabilityShapes
  \cup SequenceShapes \cup MatchShapes
  \cup { IntS, TypeS("str"), TypeS("dict"), FuncS("in0to5"), Use("int", <<>>),
         Use("int", Custom), LitS(PyInt(1)), Schema(IntS, Custom) }

\* the mappings with at most n keys of K and values in V
MapsUpTo(K, V, n) ==
  UNION { [S -> V] : S \in {T \in SUBSET K : Cardinality(T) <= n} }

Scalars ==
  { PyInt(0), PyInt(1), PyInt(7), PyStr("3"), PyStr("9"), PyStr("bad"), PyFloat(10),
    PyStr("EUROPE"), Member("Continent", "ASIA"),
    PyStr("00000000-0000-0000-0000-000000000001"),
    PyStr("2015-01-01T00:00:00+00:00"),
    PyStr("a"), PyStr("ab1"), PyStr("a_b") }

Data ==
  Scalars
  \cup { PyDict(m) : m \in MapsUpTo({"a", "b", "q", "v"}, {PyInt(7), PyStr("3"), PyStr("bad")}, MaxKeys) }
  \cup { PyDict([c |-> PyStr("ASIA")]), PyDict([x |-> PyFloat(10), y |-> PyFloat(20)]) }
  \cup { PyList(<<>>), PyList(<<PyInt(1), PyInt(0)>>), PyList(<<PyInt(1), PyInt(7)>>),
         PyTuple(<<PyInt(1)>>), PyTuple(<<>>), PyList(<<PyStr("3"), PyInt(1)>>),
         Stack(<<PyInt(1), PyInt(0)>>), OrderedDict([a |-> PyInt(7)]),
         AndValue(<<PyStr("bad")>>) }

\* what the caller sees of an outcome
Observed(r) == [ok |-> r.ok, val |-> r.val, exc |-> r.exc, msg |-> r.msg, trace |-> r.trace]

NoCall == [op |-> ""]

\* the inputs of a call that has not been made yet
Pending(s, e, d) == [op |-> "pending", s |-> s, e |-> e, d |-> d]

EInit ==
  /\ heap = [next |-> 1, recs |-> EmptyMap]
  /\ \E s \in Shapes, e \in Errors, d \in Data : last = Pending(s, e, d)

\* Schema(s, e).validate(d)
EValidate ==
  /\ last.op = "pending"
  /\ LET r == Schema_validate(last.s, last.e, last.d, heap) IN
     /\ heap' = r.h
     /\ last' = [op |-> "Schema.validate", s |-> last.s, e |-> last.e, d |-> last.d,
                 res |-> Observed(r)]

\* s.validate(d) for a schema s with a validate method
ECall ==
  /\ last.op = "pending"
  /\ last.e = <<>>
  /\ HasValidate(last.s)
  /\ LET r == CallValidate(last.s, last.d, heap) IN
     /\ heap' = r.h
     /\ last' = [op |-> "validate", s |-> last.s, e |-> last.e, d |-> last.d,
                 res |-> Observed(r)]

\* Schema(s, e).validate(v) for the value v the call before returned
EValidateAgain ==
  /\ last.op \in {"Schema.validate", "validate"}
  /\ last.res.ok
  /\ LET r == Schema_validate(last.s, last.e, last.res.val, heap) IN
     /\ r.h.next <= MaxObjs + 2
     /\ heap' = r.h
     /\ last' = [op |-> "Schema.validate", s |-> last.s, e |-> last.e, d |-> last.res.val,
                 res |-> Observed(r)]

ENext == EValidate \/ ECall \/ EValidateAgain

EngineSpec == EInit /\ [][ENext]_vars

(***************************************************************************)
(* Properties of mapping schemas, stated of the calls of EngineSpec.       *)
(***************************************************************************)
\* the last call validated a mapping against a mapping schema
DictCall == last.op = "Schema.validate" /\ last.s.kind = "dict" /\ last.d.cls = "dict"

\* the keys the schema of the last call declares, and the schema of key k
Declared == {last.s.entries[i].k : i \in 1..Len(last.s.entries)}
ItemOf(k) == last.s.entries[CHOOSE i \in 1..Len(last.s.entries) : last.s.entries[i].k = k].v
ValueSchemaOf(k) == IF ItemOf(k).kind = "Optional" THEN ItemOf(k).schema ELSE ItemOf(k)
HasDefault(k) == ItemOf(k).kind = "Optional" /\ ItemOf(k).default # OPTIONAL_NO_DEFAULT_MARK

\* the keys of the input the schema does not declare, and the required keys
\* the input lacks
Undeclared == DOMAIN last.d.d \ Declared
Missing == {k \in Declared : ItemOf(k).kind # "Optional"} \ DOMAIN last.d.d

\* the outcome of validating the input's value of a declared key
ValueOutcome(k) == Schema_validate(ValueSchemaOf(k), last.e, last.d.d[k], heap)
PresentValuesValidate == \A k \in Declared \cap DOMAIN last.d.d : ValueOutcome(k).ok

\* the keys of S in ascending order, and their quoted, comma-separated list
Rank(k) == CHOOSE i \in 1..Len(KeyOrder) : KeyOrder[i] = k
Ascending(S) ==
  CHOOSE q \in [1..Cardinality(S) -> S] :
    \A i, j \in 1..Cardinality(S) : i < j => Rank(q[i]) < Rank(q[j])
RECURSIVE Listed(_)
Listed(q) ==
  IF Len(q) = 0 THEN ""
  ELSE IF Len(q) = 1 THEN "'" \o q[1] \o "'"
  ELSE Listed(SubSeq(q, 1, Len(q) - 1)) \o ", '" \o q[Len(q)] \o "'"

\* C4 as stated: an input with an undeclared key always fails with the
\* failure that names the undeclared keys
C4_AsStated ==
  DictCall /\ Undeclared # {} =>
    /\ ~last.res.ok
    /\ last.res.msg = <<Lit("Wrong keys in "), Repr(last.d),
                        Lit(": " \o Listed(Ascending(Undeclared)))>>

\* C4 (amended): validating a mapping with an undeclared key against a
\* mapping schema fails with a SchemaError; when moreover every declared
\* value present validates and no required key is missing, the failure is
\* the "Wrong keys" one naming all undeclared keys in sorted order; and no
\* successful result holds an undeclared key.
C4_ClosedWorld ==
  DictCall =>
    /\ Undeclared # {} => ~last.res.ok /\ last.res.exc = "SchemaError"
    /\ Undeclared # {} /\ PresentValuesValidate /\ Missing = {} =>
         last.res.msg = <<Lit("Wrong keys in "), Repr(last.d),
                          Lit(": " \o Listed(Ascending(Undeclared)))>>
    /\ last.res.ok => DOMAIN last.res.val.d \subseteq Declared

C4_Witness ==
  /\ DictCall /\ Cardinality(Undeclared) = 2 /\ Missing = {}
  /\ ~last.res.ok /\ last.res.msg[1] = Lit("Wrong keys in ")

\* C5: when required keys are missing and every declared value present
\* validates, validation fails with one SchemaError whose message lists all
\* the missing required keys in sorted order, whatever the order in which
\* the schema declares them.
C5_MissingAggregated ==
  DictCall /\ Missing # {} /\ PresentValuesValidate =>
    /\ ~last.res.ok /\ last.res.exc = "SchemaError"
    /\ last.res.msg = <<Lit("Missing keys: " \o Listed(Ascending(Missing)))>>

C5_Witness ==
  /\ DictCall /\ Missing = {"a", "b"} /\ last.s.entries[1].k = "b"
  /\ ~last.res.ok /\ Len(last.res.msg) = 1

\* the missing-keys text with the keys as they are, and quoted as repr does
MissingPlain ==
  CASE Missing = {"a", "b"} -> "Missing keys: a, b"
    [] Missing = {"a"} -> "Missing keys: a"
    [] Missing = {"b"} -> "Missing keys: b"
MissingQuoted ==
  CASE Missing = {"a", "b"} -> "Missing keys: 'a', 'b'"
    [] Missing = {"a"} -> "Missing keys: 'a'"
    [] Missing = {"b"} -> "Missing keys: 'b'"

\* C6 as stated: the message is "Missing keys: " and the bare keys, so
\* "Missing keys: a, b" for {} against {"a": int, "b": int}
C6_AsStated ==
  DictCall /\ Missing # {} /\ PresentValuesValidate =>
    ~last.res.ok /\ last.res.msg = <<Lit(MissingPlain)>>

\* C6 (amended): the message is exactly "Missing keys: " followed by the
\* repr of each missing key (a str key in quotes), sorted, separated by
\* comma and space: "Missing keys: 'a', 'b'" for {} against
\* {"a": int, "b": int}.
C6_ExactMissingMessage ==
  DictCall /\ Missing # {} /\ PresentValuesValidate =>
    ~last.res.ok /\ last.res.msg = <<Lit(MissingQuoted)>>

C6_Witness ==
  /\ DictCall /\ last.d = PyDict(EmptyMap) /\ last.e = <<>>
  /\ last.s = DictS(<<[k |-> "a", v |-> IntS], [k |-> "b", v |-> IntS]>>)
  /\ last.res.exc = "SchemaError"

\* C7: in a successful result a present key holds its validated input
\* value, an absent Optional key with a default holds the default, and an
\* absent Optional key without a default is absent: the default is written
\* exactly for the keys declared Optional with a default and absent from
\* the input.
C7_OptionalDefaultFill ==
  DictCall /\ last.res.ok =>
    \A k \in Declared :
      /\ k \in DOMAIN last.d.d =>
           k \in DOMAIN last.res.val.d /\ last.res.val.d[k] = ValueOutcome(k).val
      /\ k \notin DOMAIN last.d.d /\ HasDefault(k) =>
           k \in DOMAIN last.res.val.d /\ last.res.val.d[k] = ItemOf(k).default
      /\ k \notin DOMAIN last.d.d /\ ~HasDefault(k) => k \notin DOMAIN last.res.val.d

C7_Witness ==
  /\ DictCall /\ last.res.ok
  /\ \E k \in Declared : HasDefault(k) /\ k \notin DOMAIN last.d.d
  /\ \E k \in Declared : ~HasDefault(k) /\ k \notin DOMAIN last.d.d
  /\ \E k \in Declared : k \in DOMAIN last.d.d


(***************************************************************************)
(* Properties of the combinators and of the capability classes, stated of  *)
(* the calls of EngineSpec.                                                *)
(***************************************************************************)
\* the heap before the first call of a behaviour of EngineSpec
HeapBefore == [next |-> 1, recs |-> EmptyMap]

\* the schema and the data of each Schema.validate call of a trace
Calls(tr) == [i \in 1..Len(tr) |-> <<tr[i].s, tr[i].d>>]

\* the last call was And(...).validate(d)
AndCall == last.op = "validate" /\ last.s.kind = "And"

\* the outcome of the i-th sub-shape on its own, fed with the value the
\* sub-shape before it returned (the first one with d)
RECURSIVE StepOutcome(_)
StepInput(i) == IF i = 1 THEN last.d ELSE StepOutcome(i - 1).val
StepOutcome(i) == Schema_validate(last.s.args[i], <<>>, StepInput(i), HeapBefore)

\* the first sub-shape that fails, 0 when none does
FirstFailure ==
  IF \E i \in 1..Len(last.s.args) : ~StepOutcome(i).ok
    THEN CHOOSE i \in 1..Len(last.s.args) :
           ~StepOutcome(i).ok /\ \A j \in 1..(i - 1) : StepOutcome(j).ok
    ELSE 0

RECURSIVE StepCalls(_)
StepCalls(n) == IF n = 0 THEN <<>> ELSE StepCalls(n - 1) \o Calls(StepOutcome(n).trace)

\* C8: And(s1..sn).validate(d) runs the sub-shapes in order, each on the
\* output of the one before, and returns the last output; at the first
\* failing sub-shape it stops, no later one is run, and it raises that
\* sub-shape's failure, or the custom message when one is configured.
C8_AndChaining ==
  AndCall =>
    IF FirstFailure = 0
      THEN /\ last.res.ok
           /\ last.res.val = StepInput(Len(last.s.args) + 1)
           /\ Calls(last.res.trace) = StepCalls(Len(last.s.args))
      ELSE /\ ~last.res.ok /\ last.res.exc = "SchemaError"
           /\ Calls(last.res.trace) = StepCalls(FirstFailure)
           /\ last.res.msg = IF last.s.error = <<>> THEN StepOutcome(FirstFailure).msg
                             ELSE <<Lit(last.s.error[1])>>

\* the last call was Or(...).validate(d)
OrCall == last.op = "validate" /\ last.s.kind = "Or"

\* the outcome of the i-th alternative on its own, on the input d
Alternative(i) == Schema_validate(last.s.args[i], <<>>, last.d, HeapBefore)

\* the first alternative that succeeds, 0 when none does
FirstMatch ==
  IF \E i \in 1..Len(last.s.args) : Alternative(i).ok
    THEN CHOOSE i \in 1..Len(last.s.args) :
           Alternative(i).ok /\ \A j \in 1..(i - 1) : ~Alternative(j).ok
    ELSE 0

RECURSIVE AlternativeCalls(_)
AlternativeCalls(n) ==
  IF n = 0 THEN <<>> ELSE AlternativeCalls(n - 1) \o Calls(Alternative(n).trace)

\* C9: Or(s1..sn).validate(d) tries the sub-shapes in order on the same d
\* and returns the output of the first that succeeds, trying none after it;
\* when none succeeds (n = 0 included) it raises one SchemaError with the
\* custom message or the generic "did not validate" one.
C9_OrFirstMatch ==
  OrCall =>
    IF FirstMatch # 0
      THEN /\ last.res.ok
           /\ last.res.val = Alternative(FirstMatch).val
           /\ Calls(last.res.trace) = AlternativeCalls(FirstMatch)
      ELSE /\ ~last.res.ok /\ last.res.exc = "SchemaError"
           /\ Calls(last.res.trace) = AlternativeCalls(Len(last.s.args))
           /\ last.res.msg = IF last.s.error = <<>>
                               THEN <<Repr(last.d), Lit(" did not validate "), SRepr(last.s)>>
                               ELSE <<Lit(last.s.error[1])>>

C9_Witness ==
  /\ OrCall /\ FirstMatch = 1 /\ last.res.ok
  /\ Alternative(2).ok /\ Alternative(2).val # last.res.val

\* the call c validated an instance of a capability class against the class
OnInstance(c) ==
  /\ c.op \in {"Schema.validate", "validate"}
  /\ c.s.kind = "type" /\ HasValidate(c.s)
  /\ IsInstance(c.d, c.s.name)

\* C10: validating a value that is already an instance of a capability
\* class (an Enum, UUID, Timestamp or Schemed class) against that class
\* returns the very same object, builds no object and modifies none.
C10_CapabilityIdempotence ==
  [][OnInstance(last') => last'.res.ok /\ last'.res.val = last'.d /\ heap' = heap]_vars

C10_Witness == OnInstance(last) /\ last.d.cls \in SchemedClasses /\ last.res.ok

(***************************************************************************)
(* The records: instances of the Schemed classes are constructed, updated  *)
(* and assigned to, and are rebuilt from their jsonable form.              *)
(***************************************************************************)
\* the keyword and attribute names, and the values, tried on each class
FieldKeys(c) ==
  CASE c = "Point" -> {"x", "y", "q"}
    [] c = "Item" -> {"c", "v", "o"}
    [] c = "Parsed" -> {"n"}
    [] c = "Stock" -> {"n", "keys"}
FieldValues(c) ==
  CASE c = "Point" -> {PyFloat(10), PyFloat(20), PyStr("bad")}
    [] c = "Item" -> {PyStr("ASIA"), PyInt(7)}
    [] c = "Parsed" -> {PyStr("3"), PyStr("bad")}
    [] c = "Stock" -> {PyInt(7)}
\* the values given in the positional mapping of a call of update
ArgValues(c) ==
  CASE c = "Point" -> {PyFloat(10)}
    [] c = "Item" -> {PyInt(7)}
    [] c = "Parsed" -> {PyStr("3")}
    [] c = "Stock" -> {PyInt(7)}
\* the values given in the keywords of a call of update
UpdateValues(c) ==
  CASE c = "Point" -> {PyFloat(20), PyStr("bad")}
    [] c = "Item" -> {PyStr("ASIA"), PyInt(7)}
    [] c = "Parsed" -> {PyStr("3"), PyStr("bad")}
    [] c = "Stock" -> {PyInt(7)}
\* the private assignments tried: a description, and _data itself
PrivateItems ==
  {<<"_description", PyStr("A 2D point")>>, <<"_data", PyDict(EmptyMap)>>}

\* the instances of the heap
Instances == { Ref(heap.recs[i].cls, i) : i \in DOMAIN heap.recs }

\* the values handed to c.validate: the instances, mappings of the fields,
\* a mapping with the key self, and a value that is neither
ValidateData(c) ==
  Instances
    \cup {PyDict(m) : m \in MapsUpTo(FieldKeys(c), FieldValues(c), MaxKeys)}
    \cup {PyDict([k \in {"self"} |-> v]) : v \in FieldValues(c)}
    \cup {PyStr("foobar")}

\* the attribute names read
ReadKeys(c) == FieldKeys(c) \cup {"_description", "jsonable"}

Init == heap = [next |-> 1, recs |-> EmptyMap] /\ last = NoCall

\* the call is over with the outcome r
Returns(call, r) ==
  /\ heap' = r.h
  /\ last' = [call EXCEPT !.res = Observed(r)]

\* c(**kw)
Construct(c, kw) ==
  /\ heap.next <= MaxObjs
  /\ Returns([op |-> "construct", cls |-> c, arg |-> EmptyMap, kw |-> kw, res |-> PyNone],
             Schemed_init(c, EmptyMap, kw, heap))

\* self.update(arg, **kw)
Update(self, arg, kw) ==
  Returns([op |-> "update", self |-> self, arg |-> arg, kw |-> kw, res |-> PyNone],
          Schemed_update(self, arg, kw, heap))

\* self.key = value
SetAttr(self, key, value) ==
  Returns([op |-> "setattr", self |-> self, key |-> key, value |-> value, res |-> PyNone],
          Schemed_setattr(self, key, value, heap))

\* the caller compares the _data of the instance returned with self's and
\* drops that instance
Compared(self, r) ==
  /\ heap' = heap
  /\ last' = [op |-> "roundtrip", self |-> self, res |-> Observed(r),
              data |-> IF r.ok THEN r.h.recs[r.val.id].data ELSE PyNone]

\* type(self).validate(self.jsonable) for the instance just constructed
RoundTrip ==
  /\ last.op = "construct" /\ last.res.ok
  /\ Compared(last.res.val,
              Schemed_validate(last.res.val.cls, Schemed_jsonable(last.res.val, heap), heap))

\* c.validate(data)
Validate(c, data) ==
  /\ data.cls = "dict" => heap.next <= MaxObjs
  /\ Returns([op |-> "Schemed.validate", cls |-> c, data |-> data, res |-> PyNone],
             Schemed_validate(c, data, heap))

\* self.key
GetAttr(self, key) ==
  Returns([op |-> "getattr", self |-> self, key |-> key, res |-> PyNone],
          getattr(self, key, heap))

Next ==
  \/ \E c \in SchemedClasses :
       \E kw \in MapsUpTo(FieldKeys(c), FieldValues(c), MaxKeys) : Construct(c, kw)
  \/ \E c \in SchemedClasses : \E data \in ValidateData(c) : Validate(c, data)
  \/ \E self \in Instances : \E key \in ReadKeys(self.cls) : GetAttr(self, key)
  \/ \E self \in Instances :
       \E arg \in MapsUpTo(FieldKeys(self.cls), ArgValues(self.cls), 1),
          kw \in MapsUpTo(FieldKeys(self.cls), UpdateValues(self.cls), 1) :
         Update(self, arg, kw)
  \/ \E self \in Instances :
       \/ \E key \in FieldKeys(self.cls), value \in FieldValues(self.cls) :
            SetAttr(self, key, value)
       \/ \E item \in PrivateItems : SetAttr(self, item[1], item[2])
  \/ RoundTrip

Spec == Init /\ [][Next]_vars

(***************************************************************************)
(* Claims about the records, checked under Spec.                           *)
(***************************************************************************)
\* the committed mapping of the instance ref in the heap h
Committed(ref, h) == h.recs[ref.id].data

\* C1: an update or an assignment to a field that fails raises SchemaError
\* and leaves every instance, the one it was called on included, as it was.
C1_AtomicUpdate ==
  [][(last'.op \in {"update", "setattr"} /\ ~last'.res.ok)
       => last'.res.exc = "SchemaError" /\ heap' = heap]_vars

\* a failed update whose keywords name a committed field with another value
C1_Witness ==
  /\ last.op = "update" /\ ~last.res.ok
  /\ Committed(last.self, heap).cls = "dict"
  /\ \E k \in DOMAIN last.kw :
       /\ k \in DOMAIN Committed(last.self, heap).d
       /\ Committed(last.self, heap).d[k] # last.kw[k]

\* C2: the committed mapping of every instance validates against the schema
\* of its class.
C2_RecordInvariant ==
  \A i \in DOMAIN heap.recs : Validated(heap.recs[i].cls, heap.recs[i].data, heap).ok

\* C3: validate applied to the jsonable of a newly constructed instance
\* returns an instance with the same committed mapping.
C3_RoundTrip ==
  last.op = "roundtrip" => last.res.ok /\ last.data = Committed(last.self, heap)

\* the instances other than ref are the same in the heaps g and h
SameOthers(ref, g, h) ==
  /\ DOMAIN h.recs = DOMAIN g.recs \cup {ref.id}
  /\ \A i \in DOMAIN g.recs : h.recs[i] = g.recs[i]

\* C11: c.validate(data) returns data itself when it is an instance of c;
\* for a mapping it returns a new instance of c whose committed mapping is
\* the validated mapping, or raises SchemaError; for any other value it
\* raises ValueError.
C11_FromPrimitive ==
  [][last'.op = "Schemed.validate" =>
       IF IsInstance(last'.data, last'.cls)
         THEN last'.res.ok /\ last'.res.val = last'.data /\ heap' = heap
       ELSE IF last'.data.cls = "dict"
         THEN \/ /\ last'.res.ok
                 /\ last'.res.val.cls = last'.cls
                 /\ last'.res.val.id \notin DOMAIN heap.recs
                 /\ SameOthers(last'.res.val, heap, heap')
                 /\ Committed(last'.res.val, heap') = Validated(last'.cls, last'.data, heap).val
              \/ ~last'.res.ok /\ last'.res.exc = "SchemaError" /\ heap' = heap
       ELSE ~last'.res.ok /\ last'.res.exc = "ValueError" /\ heap' = heap]_vars

\* the schema the class c declares for its field k, without the Optional mark
FieldSchema(c, k) ==
  LET item == SchemaItem(SchemedMeta(c).schema, k) IN
  IF item.kind = "Optional" THEN item.schema ELSE item

\* the value the schema of field k of class c gives for v
FieldValue(c, k, v) == Schema_validate(FieldSchema(c, k), SchemedMeta(c).error, v, heap).val

\* the last call was a successful update
Updated == last.op = "update" /\ last.res.ok

\* C12: after a successful update, a key given both in the positional
\* mapping and in the keywords holds the validated value of the keyword.
C12_MergePrecedence ==
  Updated =>
    \A k \in DOMAIN last.arg \cap DOMAIN last.kw :
      Committed(last.self, heap).d[k] = FieldValue(last.self.cls, k, last.kw[k])

\* a successful update that was given two values for one key, the positional
\* one being valid too
C12_Witness ==
  /\ Updated
  /\ \E k \in DOMAIN last.arg \cap DOMAIN last.kw :
       /\ last.arg[k] # last.kw[k]
       /\ Committed(last.self, heap).d[k] # FieldValue(last.self.cls, k, last.arg[k])
       /\ Committed(last.self, heap).d[k] = last.kw[k]

\* the fields of ref that the heaps g and h agree on
Kept(ref, g, h) ==
  {k \in DOMAIN Committed(ref, g).d :
     k \in DOMAIN Committed(ref, h).d /\ Committed(ref, h).d[k] = Committed(ref, g).d[k]}

\* C13: a successful update, or assignment to a field, leaves every field it
\* does not name as it was.
C13_UpdateFrame ==
  [][/\ (last'.op = "update" /\ last'.res.ok)
          => DOMAIN Committed(last'.self, heap).d \ (DOMAIN last'.arg \cup DOMAIN last'.kw)
               \subseteq Kept(last'.self, heap, heap')
     /\ (last'.op = "setattr" /\ last'.res.ok /\ ~IsPrivate(last'.key))
          => DOMAIN Committed(last'.self, heap).d \ {last'.key}
               \subseteq Kept(last'.self, heap, heap')]_vars

\* C14: reading an attribute named as a key of the committed mapping gives
\* the committed value.
C14_GetCommitted ==
  (last.op = "getattr" /\ last.key \in Schemed_keys(last.self, heap))
    => last.res.ok /\ last.res.val = Committed(last.self, heap).d[last.key]

Rules == <<"capability", "sequence", "mapping", "type", "callable", "literal">>

\* the shape s is of the kind the rule is about
Applies(rule, s) ==
  CASE rule = "capability" ->
         \/ s.kind \in {"And", "Or", "Use", "Schema", "StringMatch"}
         \/ s.kind = "type" /\ s.name \in {"Continent", "UUID", "Timestamp", "Point", "Item", "Parsed", "Stock"}
    [] rule = "sequence" ->
         s.kind \in {"list", "tuple", "And", "Or", "Use", "Optional", "StringMatch"}
    [] rule = "mapping" -> s.kind = "dict"
    [] rule = "type" -> s.kind = "type"
    [] rule = "callable" -> s.kind \in {"type", "func"}
    [] rule = "literal" -> TRUE

\* the first rule, in priority order, that applies to s
Chosen(s) ==
  Rules[CHOOSE i \in 1..Len(Rules) :
          Applies(Rules[i], s) /\ \A j \in 1..(i - 1) : ~Applies(Rules[j], s)]

\* the verdict of s(d) taken as a predicate
Predicate(s, e, d, r) ==
  IF ~r.ok THEN r
  ELSE IF Truthy(r.val) THEN Return(d, r.h, r.trace)
  ELSE SchemaError(e, <<Lit(get_callable_repr(s.name)), Lit("("), Repr(d),
                        Lit(") should evaluate to True")>>, r.h, r.trace)

\* the container check of a sequence shape, then the elements
Elementwise(s, e, d, t, h) ==
  IF ~t.ok THEN t ELSE Rebuilt(Or(Members(s), e), d, h, <<>>)

\* what the rule alone makes of Schema(s, e).validate(d) on the heap h
ByRule(rule, s, e, d, h) ==
  CASE rule = "capability" ->
         Pcall(CallValidate(s, d, h), e, <<SRepr(s), Lit(".validate("), Repr(d), Lit(")")>>)
    [] rule = "sequence" ->
         Elementwise(s, e, d, Schema_validate(TypeS(s.kind), e, d, h), h)
    [] rule = "mapping" -> Dict_validate(s, e, d, h)
    [] rule = "type" ->
         IF IsInstance(d, s.name) THEN Return(d, h, <<>>)
         ELSE SchemaError(e, <<Repr(d), Lit(" should be instance of "), SRepr(s)>>, h, <<>>)
    [] rule = "callable" ->
         Predicate(s, e, d,
                   Pcall(CallFunc(s.name, d, h), e, <<StrOf(s), Lit("("), Repr(d), Lit(")")>>))
    [] rule = "literal" ->
         IF PyEq(s.value, d) THEN Return(d, h, <<>>)
         ELSE SchemaError(e, <<Repr(d), Lit(" should be "), SRepr(s)>>, h, <<>>)

\* the caller sees of the call c what the outcome r shows
SameOutcome(c, r) ==
  /\ c.ok = r.ok /\ c.val = r.val /\ c.exc = r.exc /\ c.msg = r.msg

\* C16: Schema(s, e).validate(d) handles s by the first rule that applies,
\* in the order: validate capability, sequence literal, mapping literal,
\* class, callable, literal equality.  A shape with a validate method is
\* delegated to even when it is a class (no instance check) or a tuple (And,
\* Or, Use and StringMatch nodes are not taken as sequence literals).
C16_DispatchPriority ==
  [][last'.op = "Schema.validate"
       => SameOutcome(last'.res, ByRule(Chosen(last'.s), last'.s, last'.e, last'.d, heap))]_vars

\* a class with a validate method accepted a value that is no instance of it
C16_Witness ==
  /\ last.op = "Schema.validate" /\ last.res.ok
  /\ last.s.kind = "type" /\ Applies("capability", last.s)
  /\ ~IsInstance(last.d, last.s.name)

\* the call c validated against a list or tuple literal
SeqCall(c) == c.op = "Schema.validate" /\ c.s.kind \in {"list", "tuple"}

\* First-Match over the members of the shape of c, on each element of its
\* data, on the heap h
ElementOutcomes(c, h) ==
  [i \in 1..Len(c.d.l) |-> Or_validate(Or(c.s.items, c.e), c.d.l[i], h)]

\* the call c did to its sequence what the element outcomes out say
Elementwise_Result(c, out) ==
  /\ c.res.ok <=> \A i \in DOMAIN out : out[i].ok
  /\ c.res.ok => c.res.val.l = [i \in DOMAIN out |-> out[i].val]
  /\ Len(c.d.l) = 0 => c.res.ok
  /\ Len(c.s.items) = 0 /\ Len(c.d.l) > 0 => ~c.res.ok

\* C17: against a list or tuple literal, validate fails unless the data is
\* an instance of the literal's container class; otherwise it succeeds
\* exactly when First-Match over the literal's members accepts every element
\* of the data, and the result holds the outputs of the elements, in order;
\* an empty input succeeds and an empty literal rejects a non-empty input.
C17_SequenceLiteral ==
  [][SeqCall(last')
       => IF IsInstance(last'.d, last'.s.kind)
            THEN Elementwise_Result(last', ElementOutcomes(last', heap))
            ELSE ~last'.res.ok /\ last'.res.exc = "SchemaError"]_vars

\* the call c validated against a sequence literal or a mapping literal
ContainerCall(c) == c.op = "Schema.validate" /\ c.s.kind \in {"list", "tuple", "dict"}

\* C18: when validation against a sequence literal or a mapping literal
\* succeeds, the result is of the class of the input: an instance of a
\* subclass of list or dict gives an instance of that subclass.
C18_ContainerTypePreserved ==
  ContainerCall(last) /\ last.res.ok => last.res.val.cls = last.d.cls

\* an instance of a subclass of list or of dict was validated
C18_Witness ==
  /\ ContainerCall(last) /\ last.res.ok
  /\ last.d.cls \in {"Stack", "OrderedDict"}
  /\ last.res.val.cls = last.d.cls

\* the custom message configured on the node the call c was made on
Configured(c) ==
  IF c.op = "Schema.validate" THEN c.e
  ELSE IF "error" \in DOMAIN c.s THEN c.s.error ELSE <<>>

\* the shape is a class without validate, a function or a literal: it
\* holds no custom message of its own
Unconfigured(s) ==
  /\ s.kind \in {"type", "func", "lit", "list", "tuple", "dict"}
  /\ ~Applies("capability", s)

\* the message shows the offending data
MentionsData(msg) == \E i \in DOMAIN msg : "repr" \in DOMAIN msg[i]

\* C19: every failure of validate carries the custom message configured on
\* the node, failures of nested shapes included; with none configured, a
\* generated message that shows the offending data (and the shape).
C19_FailureMessages ==
  last.op \in {"Schema.validate", "validate"} /\ ~last.res.ok =>
    IF Configured(last) # <<>>
      THEN last.res.msg = <<Lit(Configured(last)[1])>>
      ELSE last.op = "Schema.validate" /\ Unconfigured(last.s)
             => MentionsData(last.res.msg)

\* the last call was StringMatch(...).validate(d)
MatchCall == last.op = "validate" /\ last.s.kind = "StringMatch"

\* the text from position 1 to cuts[k] is in the language of the items:
\* the i-th item takes the characters after cuts[i - 1] up to cuts[i]
Splits(items, text, cuts) ==
  \A i \in 1..Len(items) :
    LET from == IF i = 1 THEN 1 ELSE cuts[i - 1] + 1 IN
    /\ from <= cuts[i]
    /\ items[i].q = "1" => cuts[i] = from
    /\ \A p \in from..cuts[i] : SubSeq(text, p, p) \in items[i].chars

\* some prefix of the text is in the language of the regular expression
MatchesPrefix(regex, text) ==
  \E cuts \in [1..Len(regex.items) -> 1..Len(text)] : Splits(regex.items, text, cuts)

\* C20: StringMatch.validate(d) returns d itself exactly when d is a str
\* and the regular expression matches a prefix of d from position 0 (the
\* whole of d need not match); otherwise it raises SchemaError, the generated
\* message being "... is not a string" for a non-string and "... does not
\* match regex ..." for a string.
C20_PatternMatch ==
  MatchCall =>
    IF IsInstance(last.d, "str") /\ MatchesPrefix(last.s.regex, last.d.s)
      THEN last.res.ok /\ last.res.val = last.d
      ELSE /\ ~last.res.ok /\ last.res.exc = "SchemaError"
           /\ last.s.error = <<>> =>
                last.res.msg =
                  IF IsInstance(last.d, "str")
                    THEN <<Repr(last.d), Lit(" does not match regex "),
                           Repr(PyStr(last.s.regex.pattern))>>
                    ELSE <<Repr(last.d), Lit(" is not a string")>>

\* a string was accepted on a prefix: the whole of it does not match
C20_Witness == MatchCall /\ last.res.ok /\ last.d = PyStr("ab1")

(***************************************************************************)
(* Properties of the Optional fields of records, stated of the steps of    *)
(* Spec.                                                                   *)
(***************************************************************************)
\* the instance the call c constructed or updated
Target(c) == IF c.op = "construct" THEN c.res.val ELSE c.self

\* the keys the call c was given values for
Supplied(c) ==
  IF c.op = "setattr" THEN {c.key} ELSE DOMAIN c.arg \cup DOMAIN c.kw

\* the keys the instance ref holds in the heap h, none when it is not there
Held(ref, h) ==
  IF ref.id \in DOMAIN h.recs /\ Committed(ref, h).cls = "dict"
    THEN DOMAIN Committed(ref, h).d ELSE {}

\* the Optional fields of class c with a default, and those without
WithDefault(c) ==
  {k \in SchemaKeys(SchemedMeta(c).schema) :
     /\ SchemaItem(SchemedMeta(c).schema, k).kind = "Optional"
     /\ SchemaItem(SchemedMeta(c).schema, k).default # OPTIONAL_NO_DEFAULT_MARK}
WithoutDefault(c) ==
  {k \in SchemaKeys(SchemedMeta(c).schema) :
     /\ SchemaItem(SchemedMeta(c).schema, k).kind = "Optional"
     /\ SchemaItem(SchemedMeta(c).schema, k).default = OPTIONAL_NO_DEFAULT_MARK}

\* the call c, a construction, an update or an assignment to a field, went
\* well
Committing(c) ==
  /\ c.op \in {"construct", "update", "setattr"} /\ c.res.ok
  /\ c.op = "setattr" => ~IsPrivate(c.key)

\* C21: after every successful construction and update, each Optional field
\* with a default is in the committed mapping, and an Optional field without
\* a default is in it only when this call was given a value for it or the
\* mapping held it before the call.
C21_OptionalPresence ==
  [][Committing(last') =>
       /\ WithDefault(Target(last').cls) \subseteq Held(Target(last'), heap')
       /\ \A k \in WithoutDefault(Target(last').cls) \cap Held(Target(last'), heap') :
            k \in Supplied(last') \cup Held(Target(last'), heap)]_vars

\* an Item constructed without its Optional fields holds the default of the
\* one and not the other
C21_Witness ==
  /\ last.op = "construct" /\ last.res.ok /\ last.cls = "Item"
  /\ DOMAIN last.kw = {"c"}
  /\ "v" \in Held(last.res.val, heap) /\ "o" \notin Held(last.res.val, heap)

(***************************************************************************)
(* The order of the checks of a mapping schema and the exceptions of user  *)
(* code, stated of the calls of EngineSpec.                                *)
(***************************************************************************)
\* the first key, in the order of the schema, whose value is present and
\* does not validate
FirstInvalid ==
  last.s.entries[CHOOSE i \in 1..Len(last.s.entries) :
                   /\ last.s.entries[i].k \in DOMAIN last.d.d
                   /\ ~ValueOutcome(last.s.entries[i].k).ok
                   /\ \A j \in 1..(i - 1) :
                        last.s.entries[j].k \in DOMAIN last.d.d
                          => ValueOutcome(last.s.entries[j].k).ok].k

\* C22: a mapping schema checks the values of the declared keys present, in
\* the order of the schema, then the missing required keys, then the
\* undeclared keys, and only then applies defaults: an invalid value wins
\* over a missing key, and a missing key over an undeclared one.
C22_CheckOrder ==
  DictCall =>
    IF ~PresentValuesValidate
      THEN ~last.res.ok /\ last.res.msg = ValueOutcome(FirstInvalid).msg
    ELSE IF Missing # {}
      THEN ~last.res.ok
           /\ last.res.msg = <<Lit("Missing keys: " \o Listed(Ascending(Missing)))>>
    ELSE IF Undeclared # {}
      THEN ~last.res.ok /\ last.res.msg[1] = Lit("Wrong keys in ")
    ELSE last.res.ok

\* an input with an invalid value and a missing required key failed with
\* the failure of the value
C22_Witness ==
  /\ DictCall /\ ~PresentValuesValidate /\ Missing # {} /\ last.e = <<>>
  /\ ~last.res.ok /\ last.res.msg = ValueOutcome(FirstInvalid).msg

\* the call c ran user code: the validate method of a shape, a function
\* taken as a predicate, or the function of a Use called directly
OnUserCode(c) ==
  \/ c.op = "Schema.validate" /\ (Applies("capability", c.s) \/ c.s.kind = "func")
  \/ c.op = "validate" /\ c.s.kind = "Use"

\* the outcome of that user code on the heap h
UserCode(c, h) ==
  IF c.op = "validate" THEN CallFunc(c.s.func, c.d, h)
  ELSE IF c.s.kind = "func" THEN CallFunc(c.s.name, c.d, h)
  ELSE CallValidate(c.s, c.d, h)

\* what the node of the call c makes of the exception of the outcome r
Converted(c, r) ==
  /\ ~c.res.ok /\ c.res.exc = "SchemaError"
  /\ IF Configured(c) # <<>> THEN c.res.msg = <<Lit(Configured(c)[1])>>
     ELSE IF r.exc = "SchemaError" THEN c.res.msg = r.msg
     ELSE c.res.msg # <<>> /\ c.res.msg[Len(c.res.msg)] = ExcRepr(r.exc, r.msg)

\* C23: when the validate method of a shape, a predicate or the function
\* of a Use raises, a SchemaError is raised again as it is when the node has
\* no custom message and is replaced by a SchemaError with the custom message
\* otherwise; any other exception becomes a SchemaError.  No such call lets
\* an exception other than SchemaError out.
C23_ExceptionPolicy ==
  [][OnUserCode(last') =>
       /\ last'.res.ok \/ last'.res.exc = "SchemaError"
       /\ ~UserCode(last', heap).ok => Converted(last', UserCode(last', heap))]_vars

\* a ValueError or TypeError of user code came out as a SchemaError
C23_Witness ==
  /\ OnUserCode(last) /\ ~last.res.ok /\ last.res.exc = "SchemaError"
  /\ ~UserCode(last, heap).ok
  /\ UserCode(last, heap).exc \in {"ValueError", "TypeError"}

(***************************************************************************)
(* Schemed.update step by step.  Here the mappings are objects of the heap *)
(* with an identity of their own: the mapping an instance has committed    *)
(* (its _data holds the reference), the mapping a caller passes to update, *)
(* the copy d that update makes and the result of the validation.  MaxCalls *)
(* calls of update on one Item, from as many threads, take their steps in  *)
(* any order; last holds the frame of each call.                           *)
(***************************************************************************)
UpdateCalls == 1..MaxCalls

\* the mapping Item(c="ASIA") commits
InitialMapping ==
  Validated("Item", PyDict([k \in {"c"} |-> PyStr("ASIA")]),
            [next |-> 1, recs |-> EmptyMap]).val

\* the mapping object the instance starts with, and the instance
InitialData == Ref("dict", 1)
TheItem == Ref("Item", 2)

\* the mapping object the caller of call t passes
CallerMapping(t) == Ref("dict", 2 + t)

\* what the callers pass: the positional mapping and the keywords
CallInputs ==
  { [arg |-> [k \in {"c", "v"} |-> IF k = "c" THEN PyStr("EUROPE") ELSE PyInt(7)],
     kw |-> EmptyMap],
    [arg |-> [k \in {"v"} |-> PyStr("bad")], kw |-> EmptyMap],
    [arg |-> EmptyMap, kw |-> [k \in {"o"} |-> PyInt(1)]] }

\* the frame of a call of update that has not taken a step
Frame(arg, kw) ==
  [pc |-> "read", self |-> TheItem, arg |-> arg, kw |-> kw,
   data |-> PyNone, d |-> PyNone, v |-> PyNone, res |-> PyNone]

UInit ==
  \E ins \in [UpdateCalls -> CallInputs] :
    /\ heap = [next |-> 3 + MaxCalls,
               recs |-> Merge([i \in {1, 2} |->
                                 IF i = 1 THEN InitialMapping
                                 ELSE [cls |-> "Item", data |-> InitialData,
                                       attrs |-> EmptyMap]],
                              [i \in {2 + t : t \in UpdateCalls} |-> PyDict(ins[i - 2].arg)])]
    /\ last = [op |-> "updates",
               calls |-> [t \in UpdateCalls |-> Frame(CallerMapping(t), ins[t].kw)]]

\* a variant that takes the mapping itself for its copy
dict_copy_Alias(h, data) == [h |-> h, ref |-> data]

\* dict(data): a new mapping object with the items of data
dict_copy(h, data) ==
  [h |-> Alloc(h, PyDict(h.recs[data.id].d)), ref |-> Ref("dict", h.next)]

\* d.update(*arg, **kw): d itself takes the items of arg, then those of kw
dict_update(h, d, arg, kw) ==
  [h EXCEPT !.recs[d.id] = updated(@, h.recs[arg.id].d, kw)]

\* a variant that returns d as it is
validated_Unchecked(h, d, r) == [ok |-> TRUE, h |-> h, ref |-> d, res |-> Observed(r)]

\* the result of self.__schema__.validate(d), r being its outcome: a new
\* mapping object when it returned
validated(h, d, r) ==
  IF r.ok
    THEN [ok |-> TRUE, h |-> Alloc(h, r.val), ref |-> Ref("dict", h.next), res |-> Observed(r)]
    ELSE [ok |-> FALSE, h |-> h, ref |-> PyNone, res |-> Observed(r)]

\* the frame of call t becomes f
Step(t, f) == last' = [last EXCEPT !.calls[t] = f]

\* object.__getattribute__(self, "_data")
UpdateRead(t) ==
  /\ last.calls[t].pc = "read"
  /\ Step(t, [last.calls[t] EXCEPT !.pc = "copy",
                                    !.data = heap.recs[last.calls[t].self.id].data])
  /\ heap' = heap

\* the frame of call t after d = dict(...), c being the copy made
Copied(t, c) ==
  /\ heap' = c.h
  /\ Step(t, [last.calls[t] EXCEPT !.pc = "merge", !.d = c.ref])

\* d = dict(...)
UpdateCopy(t) ==
  /\ last.calls[t].pc = "copy"
  /\ Copied(t, dict_copy(heap, last.calls[t].data))

\* d.update(*arg, **kw)
UpdateMerge(t) ==
  /\ last.calls[t].pc = "merge"
  /\ heap' = dict_update(heap, last.calls[t].d, last.calls[t].arg, last.calls[t].kw)
  /\ Step(t, [last.calls[t] EXCEPT !.pc = "validate"])

\* the frame of call t after the validation, n being its result
ValidatedStep(t, n) ==
  /\ heap' = n.h
  /\ Step(t, [last.calls[t] EXCEPT !.pc = IF n.ok THEN "swap" ELSE "raised",
                                    !.v = n.ref, !.res = n.res])

\* self.__schema__.validate(d)
UpdateValidate(t) ==
  /\ last.calls[t].pc = "validate"
  /\ ValidatedStep(t, validated(heap, last.calls[t].d,
                                Validated(last.calls[t].self.cls,
                                          heap.recs[last.calls[t].d.id], heap)))

\* object.__setattr__(self, "_data", ...); return self
UpdateSwap(t) ==
  /\ last.calls[t].pc = "swap"
  /\ heap' = [heap EXCEPT !.recs[last.calls[t].self.id].data = last.calls[t].v]
  /\ Step(t, [last.calls[t] EXCEPT !.pc = "done"])

UNext ==
  \E t \in UpdateCalls :
    \/ UpdateRead(t)
    \/ UpdateCopy(t)
    \/ UpdateMerge(t)
    \/ UpdateValidate(t)
    \/ UpdateSwap(t)

UpdateSpec == UInit /\ [][UNext]_vars

(***************************************************************************)
(* Properties of the steps of update, stated of UpdateSpec.                *)
(***************************************************************************)
\* the mapping object the instance has committed, and its mapping
CommittedData == heap.recs[TheItem.id].data
CommittedMapping == heap.recs[CommittedData.id]

\* the mapping objects that are inputs: the one committed at the start and
\* the one committed now, the ones the callers passed, the ones the calls
\* read and the ones validations returned
InputObjects ==
  {InitialData.id, CommittedData.id}
    \cup {CallerMapping(t).id : t \in UpdateCalls}
    \cup {last.calls[t].data.id : t \in {u \in UpdateCalls : last.calls[u].data # PyNone}}
    \cup {last.calls[t].v.id : t \in {u \in UpdateCalls : last.calls[u].v # PyNone}}

\* call t takes the step of the validation
Validating(t) == last.calls[t].pc = "validate" /\ last'.calls[t].pc # "validate"

\* C24: no step of update modifies a mapping object it was given: not the
\* committed mapping, present or past, nor the mapping of the caller; update
\* merges into a copy, and the validation leaves its input d as it is and
\* returns a new mapping object, whether it succeeds or fails.
C24_NoInputMutation ==
  [][/\ \A id \in InputObjects : heap'.recs[id] = heap.recs[id]
     /\ \A t \in UpdateCalls :
          Validating(t) =>
            /\ heap'.recs[last.calls[t].d.id] = heap.recs[last.calls[t].d.id]
            /\ last'.calls[t].pc = "swap" => last'.calls[t].v.id \notin DOMAIN heap.recs
            /\ last.calls[t].d.id \notin InputObjects]_vars

\* a call given a mapping with items is over and has committed a new
\* mapping object; another call raised
C24_Witness ==
  \E t, u \in UpdateCalls :
    /\ last.calls[t].pc = "done" /\ last.calls[u].pc = "raised"
    /\ DOMAIN heap.recs[CallerMapping(t).id].d # {}
    /\ CommittedData # InitialData
    /\ heap.recs[InitialData.id] = InitialMapping

\* the candidates the calls can make of the mappings M, and the outputs of
\* the validation of those that validate
Candidates(M) ==
  {updated(m, heap.recs[CallerMapping(t).id].d, last.calls[t].kw) :
     m \in M, t \in UpdateCalls}
Outputs(M) ==
  {Validated("Item", x, heap).val : x \in {y \in Candidates(M) : Validated("Item", y, heap).ok}}

\* the mappings that n calls, one after another, can commit
RECURSIVE Committable(_)
Committable(n) ==
  IF n = 0 THEN {InitialMapping}
  ELSE Committable(n - 1) \cup Outputs(Committable(n - 1))

\* C25: however the steps of the calls of update on one instance are
\* interleaved, the mapping the instance has committed is at every moment
\* the mapping of the start or the whole validated output of the candidate
\* of one call: never a candidate not validated, never a part of one.
C25_NoPartialState == CommittedMapping \in Committable(MaxCalls)

\* two calls that both read the mapping of the start are over, and the
\* output of one of them is committed
C25_Witness ==
  \E t, u \in UpdateCalls :
    /\ t # u
    /\ last.calls[t].pc = "done" /\ last.calls[u].pc = "done"
    /\ last.calls[t].data = InitialData /\ last.calls[u].data = InitialData
    /\ CommittedData = last.calls[u].v
    /\ CommittedMapping # heap.recs[last.calls[t].v.id]
    /\ CommittedMapping # InitialMapping
====
